---- MODULE Spec2Model ----
(***************************************************************************)
(* Model of the request handlers of app.py: the URL normalizer             *)
(* (extract_video_id), the metadata endpoint (get_video_info) and the      *)
(* audio retrieval pipeline (download_audio) working in the shared         *)
(* DOWNLOAD_FOLDER.                                                        *)
(*                                                                         *)
(* Strings the code searches or splits are sequences of one-character      *)
(* strings, so that `in`, str.split and str.startswith are computed as     *)
(* Python computes them.                                                   *)
(***************************************************************************)
EXTENDS Integers, Sequences, FiniteSets, TLC

VARIABLES
    vid,        \* SpecUrl: the video identifier the two URLs are built around
    shapes,     \* SpecUrl: the shapes of the two URLs, <<shape1, shape2>>
    ids,        \* SpecUrl: <<>> before the call, then the two results of extract_video_id
    files,      \* names of the files in DOWNLOAD_FOLDER
    uuidCount,  \* number of uuid4() values drawn so far
    req,        \* per request: endpoint, url, position in the handler, locals, response
    YOUTUBE_API_KEYS  \* the module-level list of credentials

vars == <<vid, shapes, ids, files, uuidCount, req, YOUTUBE_API_KEYS>>

urlVars == <<vid, shapes, ids>>
mainVars == <<files, uuidCount, req, YOUTUBE_API_KEYS>>

-----------------------------------------------------------------------------
(* Strings *)

WatchMarker == <<"y", "o", "u", "t", "u", "b", "e", ".", "c", "o", "m", "/", "w", "a", "t", "c", "h">>
ShortMarker == <<"y", "o", "u", "t", "u", ".", "b", "e", "/">>
HostPrefix == <<"w", "w", "w", ".">>
OtherHost == <<"v", "i", "m", "e", "o", ".", "c", "o", "m", "/">>
ParamT == <<"t", "=", "1">>
ParamRv == <<"r", "v", "=", "x">>
VEq == <<"v", "=">>
Amp == <<"&">>
QMark == <<"?">>

\* s[i..] starts with pat
StartsAt(s, pat, i) ==
    /\ i + Len(pat) - 1 <= Len(s)
    /\ SubSeq(s, i, i + Len(pat) - 1) = pat

\* Python: s.startswith(pat)
startswith(s, pat) == StartsAt(s, pat, 1)

\* Python: s.find(pat) + 1, 0 when pat does not occur
Find(s, pat) ==
    LET hits == {i \in 1..Len(s) : StartsAt(s, pat, i)}
    IN  IF hits = {} THEN 0 ELSE CHOOSE i \in hits : \A j \in hits : i <= j

\* Python: pat in s
Contains(s, pat) == Find(s, pat) # 0

\* Python: s.split(sep), for a non-empty sep
RECURSIVE Split(_, _)
Split(s, sep) ==
    LET i == Find(s, sep)
    IN  IF i = 0 THEN <<s>>
        ELSE <<SubSeq(s, 1, i - 1)>> \o Split(SubSeq(s, i + Len(sep), Len(s)), sep)

-----------------------------------------------------------------------------
(* extract_video_id *)

Ok(v) == [ok |-> TRUE, value |-> v]
Raise(e) == [ok |-> FALSE, error |-> e]

\* the watch-page branch: url.split("v=")[1].split("&")[0]
WatchBranch(url) ==
    LET parts == Split(url, VEq)
    IN  IF Len(parts) < 2 THEN Raise("list index out of range")
        ELSE Ok(Split(parts[2], Amp)[1])

\* the short-link branch: url.split("youtu.be/")[1].split("?")[0]
ShortBranch(url) ==
    LET parts == Split(url, ShortMarker)
    IN  IF Len(parts) < 2 THEN Raise("list index out of range")
        ELSE Ok(Split(parts[2], QMark)[1])

extract_video_id(url) ==
    IF Contains(url, WatchMarker) THEN WatchBranch(url)
    ELSE IF Contains(url, ShortMarker) THEN ShortBranch(url)
    ELSE Raise("Invalid YouTube URL")

-----------------------------------------------------------------------------
(* The URLs the normalizer is applied to *)

\* video identifiers; <<>> is the identifier missing after the marker
VideoIds == {<<"a", "b">>, <<"x", "v">>}

WatchShapes == {"watch", "watch_after", "watch_before", "watch_both", "watch_rv"}
ShortShapes == {"short", "short_query"}
AcceptedShapes == WatchShapes \cup ShortShapes
\* a watch URL with no v= at all, and a URL with neither marker
NoIdShapes == {"watch_bare", "watch_other_param", "other_host"}
Shapes == AcceptedShapes \cup NoIdShapes

MkUrl(shape, v) ==
    LET w == HostPrefix \o WatchMarker
    IN  CASE shape = "watch"             -> w \o QMark \o VEq \o v
          [] shape = "watch_after"       -> w \o QMark \o VEq \o v \o Amp \o ParamT
          [] shape = "watch_before"      -> w \o QMark \o ParamT \o Amp \o VEq \o v
          [] shape = "watch_both"        -> w \o QMark \o ParamT \o Amp \o VEq \o v \o Amp \o ParamT
          [] shape = "watch_rv"          -> w \o QMark \o ParamRv \o Amp \o VEq \o v
          [] shape = "short"             -> ShortMarker \o v
          [] shape = "short_query"       -> ShortMarker \o v \o QMark \o ParamT
          [] shape = "watch_bare"        -> w
          [] shape = "watch_other_param" -> w \o QMark \o ParamT
          [] shape = "other_host"        -> OtherHost \o v

-----------------------------------------------------------------------------
(* SpecUrl: extract_video_id applied to two URLs built around one identifier *)

MainIdle ==
    /\ files = {}
    /\ uuidCount = 0
    /\ req = <<>>
    /\ YOUTUBE_API_KEYS = <<>>

InitUrl ==
    /\ vid \in VideoIds \cup {<<>>}
    /\ shapes \in Shapes \X Shapes
    /\ ids = <<>>
    /\ MainIdle

Normalize ==
    /\ ids = <<>>
    /\ ids' = <<extract_video_id(MkUrl(shapes[1], vid)),
                extract_video_id(MkUrl(shapes[2], vid))>>
    /\ UNCHANGED <<vid, shapes, mainVars>>

NextUrl == Normalize

SpecUrl == InitUrl /\ [][NextUrl]_vars

-----------------------------------------------------------------------------
(* Claims about extract_video_id (SpecUrl) *)

\* the URL of the k-th call carries a recognised marker but no identifier after it
MissingId(k) ==
    \/ shapes[k] \in AcceptedShapes /\ vid = <<>>
    \/ shapes[k] \in {"watch_bare", "watch_other_param"}

\* C7: extract_video_id never returns an empty identifier: a URL with a
\* recognised marker and no identifier after it fails with an error, and a URL
\* with neither marker fails with the invalid-URL error.
C7_NeverEmptyId ==
    ids # <<>> =>
        \A k \in 1..2 :
            /\ ids[k].ok => ids[k].value # <<>>
            /\ MissingId(k) => ~ids[k].ok
            /\ shapes[k] = "other_host" =>
                   ids[k] = Raise("Invalid YouTube URL")

\* C8: for every identifier and every pair of accepted URL shapes for it,
\* extract_video_id returns the same identifier, equal to the identifier itself.
C8_SameIdForAllShapes ==
    (ids # <<>> /\ vid # <<>> /\ shapes[1] \in AcceptedShapes /\ shapes[2] \in AcceptedShapes) =>
        /\ ids[1] = Ok(vid)
        /\ ids[2] = Ok(vid)

-----------------------------------------------------------------------------
(* The working directory and its file names *)

MaxReq == 2     \* requests handled in one run
IdLen == 2      \* digits of a unique identifier (uuid4().hex has 32)
MaxKeys == 2    \* credentials loaded at module load (the code loads 1 to 10)

Reqs == 1..MaxReq

\* os.path.join(DOWNLOAD_FOLDER, "youtube_cookies.txt"), as a name in the folder
COOKIE_FILE == <<"youtube_cookies.txt">>

\* n written with k binary digits
RECURSIVE Digits(_, _)
Digits(n, k) ==
    IF k = 0 THEN <<>>
    ELSE Digits(n \div 2, k - 1) \o <<IF n % 2 = 0 THEN "0" ELSE "1">>

\* uuid.uuid4().hex: the n-th value drawn. The values are distinct and all of
\* the same length; which digits they hold is immaterial to the handler, so
\* they are enumerated.
uuid4_hex(n) == Digits(n, IdLen)

\* f"{unique_id}.<ext>"
FileName(unique_id, ext) == unique_id \o <<".", ext>>

\* final_mp3_path = f"{unique_id}.mp3"
final_mp3_path(unique_id) == FileName(unique_id, "mp3")

\* os.path.exists(path)
exists(path) == path \in files

\* a lookup that takes any file of the folder but <id>.mp3
IsDownloadedFileAny(file, unique_id) == file # final_mp3_path(unique_id)

\* the test of the artifact lookup loop:
\* file.startswith(unique_id) and file != f"{unique_id}.mp3"
IsDownloadedFile(file, unique_id) ==
    startswith(file, unique_id) /\ file # final_mp3_path(unique_id)

\* the extensions yt-dlp's %(ext)s can produce for the "best" format
DownloadExts == {"m4a", "mp3"}

-----------------------------------------------------------------------------
(* Requests and responses *)

NoInfo == [views |-> 0, length_seconds |-> 0, title |-> ""]

NoResponse == [status |-> 0, error |-> "", file |-> <<>>, download_name |-> <<>>, info |-> NoInfo]

\* jsonify({"error": msg}), status
ErrorResponse(status, msg) == [NoResponse EXCEPT !.status = status, !.error = msg]

\* jsonify(video_info), 200
InfoResponse(info) == [NoResponse EXCEPT !.status = 200, !.info = info]

\* send_file(path, as_attachment=True, download_name=f"{video_title}.mp3")
FileResponse(path) ==
    [NoResponse EXCEPT !.status = 200, !.file = path, !.download_name = <<"video_title", ".mp3">>]

\* one call a handler made: the operation, its two arguments (for the provider
\* call the second holds the key used and what the provider returned), its result
Call(op, a, b, result) == [op |-> op, a |-> a, b |-> b, result |-> result]

IdleRequest ==
    [endpoint |-> "none", url |-> <<>>, pc |-> "idle", unique_id |-> <<>>,
     downloaded_file |-> <<>>, calls |-> <<>>, response |-> NoResponse]

\* requests are numbered in their order of arrival
Arrives(r) ==
    /\ req[r].pc = "idle"
    /\ r > 1 => req[r - 1].pc # "idle"

\* the handler returns
Return(rec, response) == [rec EXCEPT !.pc = "done", !.response = response]

\* the url query parameters of the requests; <<>> is an absent or empty one
GoodUrl == MkUrl("watch", <<"a", "b">>)
NoMarkerUrl == MkUrl("other_host", <<"a", "b">>)
InfoUrls == {<<>>, GoodUrl, NoMarkerUrl, MkUrl("watch_bare", <<>>)}
AudioUrls == {<<>>, GoodUrl, NoMarkerUrl}

-----------------------------------------------------------------------------
(* GET /api/info *)

\* random.choice draws one index of the list (0 stands for the empty list)
KeyDraws == IF YOUTUBE_API_KEYS = <<>> THEN {0} ELSE 1..Len(YOUTUBE_API_KEYS)

get_random_api_key(k) ==
    IF YOUTUBE_API_KEYS = <<>> THEN Raise("No YouTube API keys available")
    ELSE Ok(YOUTUBE_API_KEYS[k])

\* isodate.parse_duration(duration).total_seconds() of PT<h>H<m>M<s>S
convert_duration(duration) == 3600 * duration.h + 60 * duration.m + duration.s

NoDuration == [h |-> 0, m |-> 0, s |-> 0]

\* what youtube.videos().list(...).execute() can do: return a response with at
\* least one item (with or without statistics.viewCount, -1 standing for its
\* absence), return no item, raise HttpError with status 403 or another status,
\* or raise any other exception
ProviderOutcomes ==
    {[kind |-> "items", viewCount |-> vc, duration |-> d] :
        vc \in {-1, 7}, d \in {[h |-> 0, m |-> 1, s |-> 5], [h |-> 1, m |-> 0, s |-> 0]}}
    \cup {[kind |-> k, viewCount |-> -1, duration |-> NoDuration] :
        k \in {"empty", "http403", "http_other", "error"}}

\* a handler that answers every HttpError alike
HttpErrorStatusMut(kind) == 500

\* status of the response to an HttpError: e.resp.status == 403 or not
HttpErrorStatus(kind) == IF kind = "http403" THEN 429 ELSE 500

\* the response built from the provider's outcome
ProviderResponse(out) ==
    CASE out.kind = "items" ->
            InfoResponse([title |-> "title",
                          views |-> IF out.viewCount = -1 THEN 0 ELSE out.viewCount,
                          length_seconds |-> convert_duration(out.duration)])
      [] out.kind = "empty" -> ErrorResponse(404, "Video not found")
      [] out.kind = "http403" ->
            ErrorResponse(HttpErrorStatus(out.kind), "YouTube API quota exceeded or API key invalid")
      [] out.kind = "http_other" -> ErrorResponse(HttpErrorStatus(out.kind), "str(e)")
      [] out.kind = "error" -> ErrorResponse(500, "str(e)")

\* a handler without the url check
UrlMissingMut(url) == FALSE

\* the url check of both handlers: not url
UrlMissing(url) == url = <<>>

\* the whole handler, for the url, the key drawn and the provider's outcome
get_video_info(url, k, out) ==
    LET rec == [IdleRequest EXCEPT !.endpoint = "info", !.url = url]
        v == extract_video_id(url)
        c1 == <<Call("extract_video_id", url, <<>>, IF v.ok THEN "ok" ELSE v.error)>>
        key == get_random_api_key(k)
        c2 == c1 \o <<Call("get_random_api_key", <<>>, <<>>, IF key.ok THEN "ok" ELSE key.error)>>
        c3 == c2 \o <<Call("videos.list", v.value,
                            <<key.value, out.viewCount, out.duration>>, out.kind)>>
    IN  IF UrlMissing(url) THEN Return(rec, ErrorResponse(400, "URL parameter is required"))
        ELSE IF ~v.ok THEN Return([rec EXCEPT !.calls = c1], ErrorResponse(500, v.error))
        ELSE IF ~key.ok THEN Return([rec EXCEPT !.calls = c2], ErrorResponse(500, key.error))
        ELSE Return([rec EXCEPT !.calls = c3], ProviderResponse(out))

\* a handler that drops the key drawn from the list when the provider answers 403
KeysAfterInfoMut(k, out) ==
    IF out.kind = "http403" /\ k # 0
    THEN [i \in 1..(Len(YOUTUBE_API_KEYS) - 1) |->
             IF i < k THEN YOUTUBE_API_KEYS[i] ELSE YOUTUBE_API_KEYS[i + 1]]
    ELSE YOUTUBE_API_KEYS

\* YOUTUBE_API_KEYS after the handler: no branch of it, the except HttpError
\* branch included, assigns to the list or removes from it
KeysAfterInfo(k, out) == YOUTUBE_API_KEYS

InfoRequest(r) ==
    /\ Arrives(r)
    /\ \E url \in InfoUrls, k \in KeyDraws, out \in ProviderOutcomes :
           /\ req' = [req EXCEPT ![r] = get_video_info(url, k, out)]
           /\ YOUTUBE_API_KEYS' = KeysAfterInfo(k, out)
    /\ UNCHANGED <<files, uuidCount, urlVars>>

-----------------------------------------------------------------------------
(* GET /api/download/audio *)

\* the request arrives: the url check, the unique identifier, the cookie check
\* and the metadata-only call ydl.extract_info(url, download=False), whose
\* failure is caught and logged and whose result only sets the display title
AudioRequest(r) ==
    /\ Arrives(r)
    /\ \E url \in AudioUrls :
        LET rec == [IdleRequest EXCEPT !.endpoint = "audio", !.url = url]
            unique_id == uuid4_hex(uuidCount)
            cookies == IF exists(COOKIE_FILE) THEN COOKIE_FILE ELSE <<>>
        IN  IF UrlMissing(url)
            THEN /\ req' = [req EXCEPT ![r] =
                        Return(rec, ErrorResponse(400, "URL parameter is required"))]
                 /\ UNCHANGED uuidCount
            ELSE /\ req' = [req EXCEPT ![r] =
                        [rec EXCEPT !.pc = "download",
                                    !.unique_id = unique_id,
                                    !.calls = <<Call("extract_info", url, cookies, "-")>>]]
                 /\ uuidCount' = uuidCount + 1
    /\ UNCHANGED <<files, YOUTUBE_API_KEYS, urlVars>>

\* what the yt-dlp command can do: exit 0 leaving <id>.<ext>, exit non-zero
\* (CalledProcessError) leaving nothing or a partial file, or not run at all
\* (subprocess.run raises OSError)
DownloadOutcomes ==
    {[kind |-> "ok", leaves |-> {<<".", ext>>}] : ext \in DownloadExts}
    \cup {[kind |-> "failed", leaves |-> l] : l \in {{}, {<<".", "m4a", ".", "part">>}}}
    \cup {[kind |-> "exception", leaves |-> {}]}

Download(r) ==
    /\ req[r].pc = "download"
    /\ \E out \in DownloadOutcomes :
        LET rec == [req[r] EXCEPT !.calls = @ \o
                        <<Call("yt-dlp", req[r].url,
                               IF exists(COOKIE_FILE) THEN COOKIE_FILE ELSE <<>>, out.kind)>>]
        IN  /\ files' = files \cup {req[r].unique_id \o suffix : suffix \in out.leaves}
            /\ req' = [req EXCEPT ![r] =
                   CASE out.kind = "ok" -> [rec EXCEPT !.pc = "lookup"]
                     [] out.kind = "failed" -> Return(rec, ErrorResponse(500, "Video download failed"))
                     [] out.kind = "exception" -> Return(rec, ErrorResponse(500, "str(e)"))]
    /\ UNCHANGED <<uuidCount, YOUTUBE_API_KEYS, urlVars>>

\* the loop over os.listdir(DOWNLOAD_FOLDER): the first file that passes the
\* test, in the arbitrary order listdir returns
Lookup(r) ==
    /\ req[r].pc = "lookup"
    /\ LET found == {f \in files : IsDownloadedFile(f, req[r].unique_id)}
       IN  IF found = {}
           THEN req' = [req EXCEPT ![r] =
                    Return([req[r] EXCEPT !.calls = @ \o <<Call("listdir", <<>>, <<>>, "none")>>],
                           ErrorResponse(500, "Could not find downloaded file"))]
           ELSE \E f \in found :
                    req' = [req EXCEPT ![r] =
                        [req[r] EXCEPT !.pc = "convert", !.downloaded_file = f,
                                       !.calls = @ \o <<Call("listdir", <<>>, f, "found")>>]]
    /\ UNCHANGED <<files, uuidCount, YOUTUBE_API_KEYS, urlVars>>

\* what ffmpeg can do: exit 0 having written the output, exit 0 with no file at
\* the output path (the case the handler's check of the MP3 file is for), exit
\* non-zero (CalledProcessError) with or without a partial output, or not run
\* at all (subprocess.run raises OSError). It exits 0 only if its input exists.
FfmpegOutcomes(input) ==
    {[kind |-> k, writes |-> w] :
        k \in {"failed"}, w \in BOOLEAN}
    \cup {[kind |-> "exception", writes |-> FALSE]}
    \cup (IF exists(input)
          THEN {[kind |-> "ok", writes |-> TRUE], [kind |-> "ok_no_output", writes |-> FALSE]}
          ELSE {})

Convert(r) ==
    /\ req[r].pc = "convert"
    /\ \E out \in FfmpegOutcomes(req[r].downloaded_file) :
        LET mp3 == final_mp3_path(req[r].unique_id)
            rec == [req[r] EXCEPT !.calls = @ \o
                        <<Call("ffmpeg", req[r].downloaded_file, mp3, out.kind)>>]
        IN  /\ files' = IF out.writes THEN files \cup {mp3} ELSE files
            /\ req' = [req EXCEPT ![r] =
                   CASE out.kind \in {"ok", "ok_no_output"} -> [rec EXCEPT !.pc = "remove"]
                     [] out.kind = "failed" -> Return(rec, ErrorResponse(500, "Audio conversion failed"))
                     [] out.kind = "exception" -> Return(rec, ErrorResponse(500, "str(e)"))]
    /\ UNCHANGED <<uuidCount, YOUTUBE_API_KEYS, urlVars>>

\* a cleanup step that removes the output instead of the input
RemovedFileMut(rec) == final_mp3_path(rec.unique_id)

\* the file the cleanup step removes
RemovedFile(rec) == rec.downloaded_file

\* os.remove(downloaded_file) inside its own try: a failure is logged only
Remove(r) ==
    /\ req[r].pc = "remove"
    /\ \E res \in (IF exists(RemovedFile(req[r])) THEN {"ok", "failed"} ELSE {"failed"}) :
        /\ files' = IF res = "ok" THEN files \ {RemovedFile(req[r])} ELSE files
        /\ req' = [req EXCEPT ![r] =
               [req[r] EXCEPT !.pc = "verify",
                              !.calls = @ \o <<Call("os.remove", RemovedFile(req[r]), <<>>, res)>>]]
    /\ UNCHANGED <<uuidCount, YOUTUBE_API_KEYS, urlVars>>

\* a handler that sends the file unchecked
Mp3ExistsMut(path) == TRUE

\* the check of the MP3 file before it is sent: os.path.exists(final_mp3_path)
Mp3Exists(path) == exists(path)

\* the check of the MP3 file, then send_file
VerifySend(r) ==
    /\ req[r].pc = "verify"
    /\ LET mp3 == final_mp3_path(req[r].unique_id)
           rec == [req[r] EXCEPT !.calls = @ \o
                       <<Call("exists", mp3, <<>>, IF exists(mp3) THEN "True" ELSE "False")>>]
       IN  req' = [req EXCEPT ![r] =
               IF Mp3Exists(mp3) THEN Return(rec, FileResponse(mp3))
               ELSE Return(rec, ErrorResponse(500, "MP3 file not created"))]
    /\ UNCHANGED <<files, uuidCount, YOUTUBE_API_KEYS, urlVars>>

-----------------------------------------------------------------------------
(* Spec: the two endpoints serving MaxReq requests concurrently *)

\* YOUTUBE_API_KEYS after module load: the keys of the environment, or the ten
\* fallback keys when it holds none, so never an empty list
LoadedKeys == [i \in 1..MaxKeys |-> <<"key", i>>]

Init ==
    /\ vid = <<>>
    /\ shapes = <<"watch", "watch">>
    /\ ids = <<>>
    /\ files \in {{}, {COOKIE_FILE}}
    /\ uuidCount = 0
    /\ req = [r \in Reqs |-> IdleRequest]
    /\ YOUTUBE_API_KEYS = LoadedKeys

Next ==
    \E r \in Reqs :
        \/ InfoRequest(r)
        \/ AudioRequest(r)
        \/ Download(r)
        \/ Lookup(r)
        \/ Convert(r)
        \/ Remove(r)
        \/ VerifySend(r)

Spec == Init /\ [][Next]_vars

-----------------------------------------------------------------------------
(* Claims about the handlers (Spec) *)

Done(r) == req[r].pc = "done"
IsInfo(r) == req[r].endpoint = "info"
IsAudio(r) == req[r].endpoint = "audio"

\* the positions of the calls of an operation in the request's history
CallsOf(r, op) == {i \in 1..Len(req[r].calls) : req[r].calls[i].op = op}

\* the request made the call and it ended with the result
HasCall(r, op, result) == \E i \in CallsOf(r, op) : req[r].calls[i].result = result

\* C1: a request to /api/info or /api/download/audio whose url parameter is
\* absent or empty is answered 400 with an error field, and the handler has
\* performed no later step: no call, no unique identifier, no file.
C1_MissingUrlIs400 ==
    \A r \in Reqs :
        (Done(r) /\ req[r].url = <<>>) =>
            /\ req[r].response.status = 400
            /\ req[r].response.error # ""
            /\ req[r].response.file = <<>>
            /\ req[r].calls = <<>>
            /\ req[r].unique_id = <<>>
            /\ req[r].downloaded_file = <<>>

C1_Witness ==
    \E r1, r2 \in Reqs :
        /\ IsInfo(r1) /\ Done(r1) /\ req[r1].url = <<>>
        /\ IsAudio(r2) /\ Done(r2) /\ req[r2].url = <<>>

\* C2: for an /api/info request with a url, the status follows the outcome of
\* the metadata call: 200 with the metadata when the provider returns an item,
\* 404 when it returns none, 429 when it raises HTTP 403, 500 for every other
\* failure (a URL extract_video_id rejects, another provider error); every
\* response other than 200 carries an error field.
C2_InfoStatus ==
    \A r \in Reqs :
        (Done(r) /\ IsInfo(r) /\ req[r].url # <<>>) =>
            LET resp == req[r].response
            IN  /\ \A i \in CallsOf(r, "videos.list") :
                       LET viewCount == req[r].calls[i].b[2]
                           duration == req[r].calls[i].b[3]
                       IN  req[r].calls[i].result = "items" =>
                               /\ resp.status = 200
                               /\ resp.error = ""
                               /\ resp.info.title # ""
                               /\ resp.info.views = (IF viewCount = -1 THEN 0 ELSE viewCount)
                               /\ resp.info.length_seconds =
                                      duration.h * 3600 + duration.m * 60 + duration.s
                /\ HasCall(r, "videos.list", "empty") => resp.status = 404
                /\ HasCall(r, "videos.list", "http403") => resp.status = 429
                /\ HasCall(r, "videos.list", "http_other") => resp.status = 500
                /\ HasCall(r, "videos.list", "error") => resp.status = 500
                /\ CallsOf(r, "videos.list") = {} => resp.status = 500
                /\ resp.status \in {200, 404, 429, 500}
                /\ resp.status # 200 => resp.error # "" /\ resp.info = NoInfo

C2_Witness ==
    \E r1, r2 \in Reqs :
        /\ IsInfo(r1) /\ Done(r1) /\ HasCall(r1, "videos.list", "http403")
        /\ req[r1].response.status = 429
        /\ IsInfo(r2) /\ Done(r2) /\ HasCall(r2, "videos.list", "items")
        /\ req[r2].response.status = 200

\* every step of the pipeline the file response depends on went well
PipelineSucceeded(r) ==
    /\ HasCall(r, "yt-dlp", "ok")
    /\ HasCall(r, "listdir", "found")
    /\ HasCall(r, "ffmpeg", "ok") \/ HasCall(r, "ffmpeg", "ok_no_output")
    /\ HasCall(r, "exists", "True")

\* C3: download_audio never turns a failure into success: it answers with the
\* file only if the download command succeeded, an artifact was found, the
\* transcoder succeeded and the output file existed when checked; otherwise
\* the request ends in an error response with a message and no file.
C3_NoFailureAsSuccess ==
    \A r \in Reqs :
        (Done(r) /\ IsAudio(r) /\ req[r].url # <<>>) =>
            LET resp == req[r].response
            IN  IF PipelineSucceeded(r)
                THEN /\ resp.status = 200
                     /\ resp.file = final_mp3_path(req[r].unique_id)
                     /\ resp.error = ""
                ELSE /\ resp.status = 500
                     /\ resp.error # ""
                     /\ resp.file = <<>>

C3_Witness ==
    \E r1, r2 \in Reqs :
        /\ IsAudio(r1) /\ Done(r1) /\ HasCall(r1, "exists", "False")
        /\ req[r1].response.status = 500
        /\ IsAudio(r2) /\ Done(r2) /\ req[r2].response.file # <<>>

\* the files in the working directory whose name carries the request's identifier
FilesOf(r) == {f \in files : startswith(f, req[r].unique_id)}

\* the download of the request succeeded and left <id>.m4a
LeftM4a(r) ==
    /\ IsAudio(r)
    /\ HasCall(r, "yt-dlp", "ok")
    /\ req[r].downloaded_file = FileName(req[r].unique_id, "m4a")

\* C4: at every exit of download_audio, every file of the working directory
\* whose name carries the request's identifier has been deleted, except the
\* final output file when it is handed to the response on success.
C4_NoFileLeftAtExit ==
    \A r \in Reqs :
        (Done(r) /\ IsAudio(r) /\ req[r].unique_id # <<>>) =>
            \A f \in FilesOf(r) : f = req[r].response.file

\* C5 as stated: when the download leaves <id>.m4a, the transcoder runs on it
\* with <id>.mp3 as output before the verification, and on transcoder success
\* <id>.m4a is removed and <id>.mp3 is the file returned, whether or not the
\* removal failed.
C5_TranscodeThenReturnMp3 ==
    \A r \in Reqs :
        LET mp3 == final_mp3_path(req[r].unique_id)
            m4a == FileName(req[r].unique_id, "m4a")
            c == req[r].calls
        IN  (LeftM4a(r) /\ Done(r)
                /\ (HasCall(r, "ffmpeg", "ok") \/ HasCall(r, "ffmpeg", "ok_no_output"))) =>
                /\ \E i \in CallsOf(r, "os.remove") : c[i].a = m4a
                /\ HasCall(r, "os.remove", "ok") => m4a \notin files
                /\ req[r].response.file = mp3

\* C5 as amended: when the download leaves <id>.m4a, the transcoder runs on it
\* with <id>.mp3 as output before the verification; on transcoder success the
\* removal of <id>.m4a is attempted (the file is gone unless the removal
\* failed) and <id>.mp3 is the file returned if it exists at the verification
\* step, the request failing with "MP3 file not created" otherwise; a failure
\* of the removal changes neither outcome.
C5_TranscodeThenVerify ==
    \A r \in Reqs :
        LET mp3 == final_mp3_path(req[r].unique_id)
            m4a == FileName(req[r].unique_id, "m4a")
            c == req[r].calls
        IN  LeftM4a(r) =>
                /\ \A i \in CallsOf(r, "ffmpeg") : c[i].a = m4a /\ c[i].b = mp3
                /\ \A j \in CallsOf(r, "exists") : \E i \in CallsOf(r, "ffmpeg") : i < j
                /\ req[r].pc = "verify" => CallsOf(r, "ffmpeg") # {}
                /\ (Done(r) /\ (HasCall(r, "ffmpeg", "ok") \/ HasCall(r, "ffmpeg", "ok_no_output"))) =>
                       /\ \E i \in CallsOf(r, "os.remove") : c[i].a = m4a
                       /\ HasCall(r, "os.remove", "ok") => m4a \notin files
                       /\ HasCall(r, "ffmpeg", "ok") =>
                              req[r].response = FileResponse(mp3) /\ mp3 \in files
                       /\ HasCall(r, "ffmpeg", "ok_no_output") =>
                              req[r].response = ErrorResponse(500, "MP3 file not created")

C5_Witness ==
    \E r \in Reqs :
        /\ LeftM4a(r) /\ Done(r)
        /\ HasCall(r, "ffmpeg", "ok")
        /\ HasCall(r, "os.remove", "failed")
        /\ req[r].response.file = final_mp3_path(req[r].unique_id)
        /\ FileName(req[r].unique_id, "m4a") \in files

\* C6: in the verification step, if <id>.mp3 is absent but a sibling file
\* carrying the request's identifier exists, the pipeline recovers the sibling
\* and ends in success; it fails with the output missing only when no file
\* carrying the identifier exists.
C6_SiblingRecovered ==
    \A r \in Reqs :
        (Done(r) /\ IsAudio(r) /\ HasCall(r, "exists", "False")) =>
            IF FilesOf(r) # {}
            THEN req[r].response.status = 200 /\ req[r].response.file \in FilesOf(r)
            ELSE req[r].response.error = "MP3 file not created"

\* the URL carries neither recognised marker
NoMarker(url) == ~Contains(url, WatchMarker) /\ ~Contains(url, ShortMarker)

ExtractorOps == {"extract_info", "yt-dlp", "videos.list"}

\* C9: in every request URL normalization runs before metadata resolution and
\* before extraction/download; when the URL carries neither marker the request
\* ends in the invalid-URL failure and neither the metadata call nor the
\* download command is invoked for it.
C9_NormalizeFirst ==
    \A r \in Reqs :
        LET c == req[r].calls
        IN  /\ \A j \in 1..Len(c) :
                   c[j].op \in ExtractorOps =>
                       \E i \in CallsOf(r, "extract_video_id") : i < j
            /\ (req[r].url # <<>> /\ NoMarker(req[r].url)) =>
                   /\ \A j \in 1..Len(c) : c[j].op \notin ExtractorOps
                   /\ Done(r) => req[r].response.error = "Invalid YouTube URL"

\* the file names the request selected, transcoded, deleted, checked or returned
Touched(r) ==
    LET c == req[r].calls
    IN  {c[i].b : i \in CallsOf(r, "listdir") \cap {j \in 1..Len(c) : c[j].result = "found"}}
        \cup {c[i].a : i \in CallsOf(r, "ffmpeg")}
        \cup {c[i].b : i \in CallsOf(r, "ffmpeg")}
        \cup {c[i].a : i \in CallsOf(r, "os.remove")}
        \cup {c[i].a : i \in CallsOf(r, "exists")}
        \cup (IF req[r].downloaded_file # <<>> THEN {req[r].downloaded_file} ELSE {})
        \cup (IF req[r].response.file # <<>> THEN {req[r].response.file} ELSE {})

\* C10: with several /api/download/audio requests running concurrently in the
\* same working directory, each with its own unique identifier, a request only
\* ever selects, transcodes, deletes and returns files carrying its own
\* identifier, never a file of another request nor the shared cookie file.
C10_OwnFilesOnly ==
    \A r \in Reqs :
        IsAudio(r) =>
            \A f \in Touched(r) :
                /\ startswith(f, req[r].unique_id)
                /\ f # COOKIE_FILE
                /\ \A o \in Reqs \ {r} :
                       req[o].unique_id # <<>> => ~startswith(f, req[o].unique_id)

C10_Witness ==
    \E r1, r2 \in Reqs :
        /\ r1 # r2
        /\ COOKIE_FILE \in files
        /\ req[r1].pc = "remove" /\ req[r2].pc = "convert"
        /\ FilesOf(r1) # {} /\ FilesOf(r2) # {}
        /\ Touched(r1) # {} /\ Touched(r2) # {}

\* the credentials configured
KeySet == {YOUTUBE_API_KEYS[i] : i \in 1..Len(YOUTUBE_API_KEYS)}

\* the key the request's provider call was made with
KeysUsed(r) == {req[r].calls[i].b[1] : i \in CallsOf(r, "videos.list")}

\* C11: no request changes the credential pool: after any sequence of
\* /api/info requests, those ending in 429 included, YOUTUBE_API_KEYS is the
\* list present after module load, so the credential of a quota failure can be
\* drawn again; every get_random_api_key call returns a member of the list and
\* fails only when the list is empty.
C11_PoolUnchanged ==
    /\ YOUTUBE_API_KEYS = LoadedKeys
    /\ \A r \in Reqs :
        /\ KeysUsed(r) \subseteq KeySet
        /\ \A i \in CallsOf(r, "get_random_api_key") :
               req[r].calls[i].result # "ok" => YOUTUBE_API_KEYS = <<>>
        /\ (Done(r) /\ req[r].response.status = 429) =>
               \A key \in KeysUsed(r) :
                   \E k \in KeyDraws : get_random_api_key(k) = Ok(key)

\* a request ended in 429 and a later one drew the same credential
C11_Witness ==
    \E r1, r2 \in Reqs :
        /\ r1 < r2
        /\ Done(r1) /\ req[r1].response.status = 429
        /\ Done(r2) /\ KeysUsed(r2) # {}
        /\ KeysUsed(r2) = KeysUsed(r1)
        /\ YOUTUBE_API_KEYS = LoadedKeys

====
